---------------------------- MODULE Spec2Model ----------------------------
(***************************************************************************)
(* customer_churn_prediction/model.py as a state machine.                  *)
(*                                                                         *)
(* One caller drives MLflowModel instances (constructor, train_with_logging,*)
(* evaluate) and one stand-alone MLflowLogging object.  mlflow, git and    *)
(* scikit-learn are external: a call into them either succeeds or raises,  *)
(* chosen nondeterministically, and the tracker's runs are kept in `runs`. *)
(* A call is executed statement by statement; `call` is the frame of the   *)
(* call in progress and `pc` inside it names the next statement.           *)
(***************************************************************************)
EXTENDS Integers, Sequences, FiniteSets, TLC

(***************************************************************************)
(* Bounds of the model                                                     *)
(***************************************************************************)
NumInstances == 2      \* MLflowModel objects the caller may construct
MaxOps == 3            \* operations (constructor or method calls) per behaviour

(***************************************************************************)
(* Program constants                                                       *)
(***************************************************************************)
NSplits == 5                        \* StratifiedKFold(n_splits=5, ...)
ModelStage == "model"               \* name of the appended pipeline stage
GridPrefix == "model__"             \* prefix written in every base param_grid
ESTIMATORS == <<"LogReg", "KNN", "RandomForest", "CatBoost">>

BaseVariants == {"LogisticRegression", "RandomForest", "Knn", "CatBoost",
                 "Lgbm", "TabNet"}
Variants == BaseVariants \cup {"Stacking"}

Instances == 1..NumInstances
Solo == NumInstances + 1            \* the stand-alone MLflowLogging object
Loggers == Instances \cup {Solo}
Parts == 1..NSplits                 \* the dataset, as its NSplits fold blocks
DefaultExperiment == "0"            \* the tracker's experiment for new runs
ScoreVectors == { <<50, 50, 50, 50, 50>>, <<100, 50, 100, 50, 100>> }
                                    \* outer-fold ROC AUC, in percent
RocValues == {50, 100}              \* roc_auc_score results, in percent

Range(s) == { s[k] : k \in DOMAIN s }

VARIABLES
  registry,    \* names that have a version in stage "Staging" in the registry
  pipelines,   \* Pipeline objects: id -> sequence of stages (Pipeline.steps)
  inst,        \* MLflowModel objects: id -> fields
  logger,      \* MLflowLogging objects: id -> fields
  runs,        \* tracker: sequence of runs, run id = index
  active,      \* mlflow's active run (0: none)
  autologOn,   \* mlflow.sklearn.autolog() has been switched on
  sent,        \* metrics and artifacts the current (or last) call logged
  call,        \* frame of the call in progress
  trace,       \* what the current (or last) call did, in order
  outcome,     \* how the last call ended
  ops          \* operations started so far

vars == <<registry, pipelines, inst, logger, runs, active, autologOn, sent,
          call, trace, outcome, ops>>

(***************************************************************************)
(* Estimator objects                                                       *)
(***************************************************************************)
NoObj == [call |-> 0, clone |-> 0]
NoneEst == [kind |-> "None", obj |-> NoObj, fitted_on |-> {}, grid |-> {},
            members |-> << >>, final |-> "None"]

(***************************************************************************)
(* param_grid of each variant: the keys in dictionary order.               *)
(***************************************************************************)
Params(v) ==
  CASE v = "LogisticRegression" ->
         <<"penalty", "C", "fit_intercept", "solver", "max_iter">>
    [] v = "RandomForest" ->
         <<"min_samples_split", "min_samples_leaf", "n_estimators">>
    [] v = "Knn" -> <<"n_neighbors", "metric">>
    [] v = "CatBoost" ->
         <<"n_estimators", "learning_rate", "max_depth", "l2_leaf_reg",
           "subsample", "random_strength", "min_data_in_leaf">>
    [] v = "Lgbm" ->
         <<"num_leaves", "max_depth", "min_child_samples", "reg_lambda">>
    [] v = "TabNet" ->
         <<"gamma", "lambda_sparse", "momentum", "n_independent", "n_shared",
           "n_steps">>
    [] v = "Stacking" ->
         <<"n_estimators", "max_depth", "subsample", "l2_leaf_reg",
           "random_strength", "learning_rate", "min_data_in_leaf",
           "grow_policy">>

Unprefixed(params) == params

\* {"model__" + key: val for key, val in params.items()}
Prefixed(params) == [k \in DOMAIN params |-> GridPrefix \o params[k]]

param_grid(v) == IF v = "Stacking" THEN Params(v) ELSE Prefixed(Params(v))

(***************************************************************************)
(* StackingMLflow.estimator: every name of ESTIMATORS is loaded from the   *)
(* registry, in order, inside the list comprehension that is an argument   *)
(* of StackingClassifier(...): a missing name raises and nothing is built. *)
(***************************************************************************)
PartialEnsemble(reg) ==
  [ok |-> TRUE,
   members |-> SelectSeq(ESTIMATORS, LAMBDA name : name \in reg)]

StackingEstimator(reg) ==
  [ok |-> \A k \in DOMAIN ESTIMATORS : ESTIMATORS[k] \in reg,
   members |-> ESTIMATORS]

\* the estimator property, evaluated by the constructor of variant v
EstimatorBuilds(v, reg) == v = "Stacking" => StackingEstimator(reg).ok

(***************************************************************************)
(* Pipelines.  "P" is a caller's pipeline with one preprocessing stage,    *)
(* "E" a caller's empty pipeline, Own(i) the Pipeline([]) that the         *)
(* constructor of instance i creates.                                      *)
(***************************************************************************)
CallerPipelines == {"P", "E"}
PipelineArgs == {"None"} \cup CallerPipelines
Own(i) == "own" \o ToString(i)
PipelineIds == CallerPipelines \cup { Own(i) : i \in Instances }

Stage(name, est) == [name |-> name, est |-> est]

\* bool(pipeline): None is falsy, and so is a Pipeline without steps
\* (Pipeline defines __len__)
Truthy(arg) == arg /= "None" /\ Len(pipelines[arg]) > 0

\* self.pipeline = pipeline if pipeline else Pipeline([])
ChosenPipeline(i, arg) == IF Truthy(arg) THEN arg ELSE Own(i)

\* Pipeline._validate_names: fitting rejects stage names that are not unique
ValidSteps(steps) ==
  \A a, b \in DOMAIN steps : steps[a].name = steps[b].name => a = b

(***************************************************************************)
(* The frame of the call in progress and the record of the last call.      *)
(***************************************************************************)
Idle == [op |-> "idle", self |-> 0, step |-> 0, exc |-> "none", n |-> 0,
         nested_score |-> << >>, folds |-> << >>, model |-> NoneEst,
         roc |-> 0, before |-> NoneEst]

\* the frame of operation op on object self, about to enter start_run
Frame(op, self, before) ==
  [Idle EXCEPT !.op = op, !.self = self, !.n = ops + 1, !.before = before]

Outcome(op, self, result, before) ==
  [op |-> op, self |-> self, result |-> result, before |-> before]

\* the statements inside `with self.mlflow_log.start_run(...)`, in order
ScoresBeforeFit(op) ==
  CASE op = "train" -> <<"cv", "log_mean", "log_std", "fit">>
    [] op = "stack_train" ->
         <<"cv", "fit", "log_mean", "log_std", "retain", "log_model">>
    [] op = "evaluate" -> <<"score", "log_roc">>
    [] op = "with" -> <<"log_metric", "log_model">>
    [] OTHER -> << >>

Body(op) ==
  CASE op = "train" -> <<"cv", "log_mean", "log_std", "fit">>
    [] op = "stack_train" ->
         <<"fit", "cv", "log_mean", "log_std", "retain", "log_model">>
    [] op = "evaluate" -> <<"score", "log_roc">>
    [] op = "with" -> <<"log_metric", "log_model">>
    [] OTHER -> << >>

\* the statement the call in progress executes next
Pc == IF call.op = "idle" THEN "none"
      ELSE IF call.step = 0 THEN "start_run"
      ELSE IF call.step > Len(Body(call.op)) THEN "end_run"
      ELSE Body(call.op)[call.step]

\* method resolution: StackingMLflow overrides train_with_logging
TrainOp(i) == IF inst[i].variant = "Stacking" THEN "stack_train" ELSE "train"

(***************************************************************************)
(* Arithmetic on the outer scores (numpy mean and std, in whole percent).  *)
(***************************************************************************)
RECURSIVE Sum(_)
Sum(s) == IF s = << >> THEN 0 ELSE Head(s) + Sum(Tail(s))

Mean(s) == Sum(s) \div Len(s)

ISqrt(n) == CHOOSE r \in 0..n : r * r <= n /\ (r + 1) * (r + 1) > n

Std(s) ==
  ISqrt(Sum([k \in DOMAIN s |-> (s[k] - Mean(s)) * (s[k] - Mean(s))])
        \div Len(s))

(***************************************************************************)
(* MLflowLogging                                                           *)
(***************************************************************************)
\* __init__
NewLogging(enabled) ==
  [logging_enabled |-> enabled, last_run_id |-> 0, experiment_id |-> "None"]

\* autolog
Autolog(lg) == IF logger[lg].logging_enabled THEN TRUE ELSE autologOn

\* log_metric: what reaches the tracker, and the metric keys of the run
MetricSent(lg, name, value) ==
  IF logger[lg].logging_enabled THEN Append(sent, <<name, value>>) ELSE sent

LogMetric(lg, name) ==
  IF logger[lg].logging_enabled
  THEN [runs EXCEPT ![active].metrics = @ \cup {name}]
  ELSE runs

\* log_model
ModelSent(lg, model, artifact_path) ==
  IF logger[lg].logging_enabled
  THEN Append(sent, <<artifact_path, model.obj.call>>)
  ELSE sent

LogModel(lg, artifact_path) ==
  IF logger[lg].logging_enabled
  THEN [runs EXCEPT ![active].artifacts = @ \cup {artifact_path}]
  ELSE runs

\* the run_id argument start_run gives mlflow.start_run (0: None, a new run)
FreshRunId(lg) == 0

RunIdArg(lg) == logger[lg].last_run_id

\* the finally clause of start_run: is mlflow.end_run() reached when the
\* body of the with statement left with exception exc ("none": normally)?
OnlyOnSuccess(exc) == exc = "none"

EndsRun(exc) == TRUE

(***************************************************************************)
(* Initial state: nothing constructed but the stand-alone MLflowLogging,   *)
(* whose logging_enabled argument is either value; the registry holds all  *)
(* base models.                                                            *)
(***************************************************************************)
Init ==
  /\ registry = Range(ESTIMATORS)
  /\ pipelines = [p \in PipelineIds |->
                    IF p = "P" THEN <<Stage("prep", "prep")>> ELSE << >>]
  /\ inst = [i \in Instances |->
               [built |-> FALSE, variant |-> "None", pipeline |-> "None",
                best_estimator |-> NoneEst]]
  /\ \E enabled \in BOOLEAN :
       logger = [l \in Loggers |->
                   IF l = Solo THEN NewLogging(enabled) ELSE NewLogging(TRUE)]
  /\ runs = << >>
  /\ active = 0
  /\ autologOn = FALSE
  /\ sent = << >>
  /\ call = Idle
  /\ trace = << >>
  /\ outcome = Outcome("none", 0, "none", NoneEst)
  /\ ops = 0

CanStart == call.op = "idle" /\ ops < MaxOps

\* the call in progress returns or raises
Return(result) ==
  /\ outcome' = Outcome(call.op, call.self, result, call.before)
  /\ call' = Idle

\* a statement of the with body raises: control goes to the finally clause
Raise(e) ==
  call' = [call EXCEPT !.step = Len(Body(call.op)) + 1, !.exc = e]

Advance(c) == [c EXCEPT !.step = @ + 1]

(***************************************************************************)
(* MLflowModel.__init__                                                    *)
(***************************************************************************)
Construct(i, v, arg) ==
  /\ CanStart
  /\ ~inst[i].built
  /\ \A j \in Instances : j < i => inst[j].built
  /\ ops' = ops + 1
  /\ trace' = << >>
  /\ sent' = << >>
  /\ logger' = [logger EXCEPT ![i] = NewLogging(TRUE)]
  /\ IF EstimatorBuilds(v, registry)
     THEN /\ pipelines' = [pipelines EXCEPT ![ChosenPipeline(i, arg)] =
                             Append(@, Stage(ModelStage, v))]
          /\ inst' = [inst EXCEPT ![i] =
                        [built |-> TRUE, variant |-> v,
                         pipeline |-> ChosenPipeline(i, arg),
                         best_estimator |-> NoneEst]]
          /\ outcome' = Outcome("construct", i, "ok", NoneEst)
     ELSE /\ outcome' = Outcome("construct", i, "RegistryError", NoneEst)
          /\ UNCHANGED <<pipelines, inst>>
  /\ UNCHANGED <<registry, runs, active, autologOn, call>>

(***************************************************************************)
(* A staged base model leaves stage "Staging" (archived or deleted by      *)
(* whoever maintains the registry).                                        *)
(***************************************************************************)
Unstage(name) ==
  /\ CanStart
  /\ name \in registry
  /\ registry' = registry \ {name}
  /\ ops' = ops + 1
  /\ trace' = << >>
  /\ sent' = << >>
  /\ outcome' = Outcome("unstage", 0, "ok", NoneEst)
  /\ UNCHANGED <<pipelines, inst, logger, runs, active, autologOn, call>>

(***************************************************************************)
(* train_with_logging, first statement: self.mlflow_log.autolog()          *)
(***************************************************************************)
TrainBegin(i) ==
  /\ CanStart
  /\ inst[i].built
  /\ ops' = ops + 1
  /\ trace' = << >>
  /\ sent' = << >>
  /\ autologOn' = Autolog(i)
  /\ call' = Frame(TrainOp(i), i, inst[i].best_estimator)
  /\ outcome' = Outcome(TrainOp(i), i, "running", inst[i].best_estimator)
  /\ UNCHANGED <<registry, pipelines, inst, logger, runs, active>>

(***************************************************************************)
(* evaluate, first statement: the NotFittedError check                     *)
(***************************************************************************)
NeverRaises(best) == FALSE

\* if self.best_estimator is None: raise NotFittedError(...)
NotFitted(best) == best.kind = "None"

EvaluateBegin(i) ==
  /\ CanStart
  /\ inst[i].built
  /\ ops' = ops + 1
  /\ trace' = << >>
  /\ sent' = << >>
  /\ IF NotFitted(inst[i].best_estimator)
     THEN /\ outcome' = Outcome("evaluate", i, "NotFittedError",
                                inst[i].best_estimator)
          /\ call' = Idle
     ELSE /\ outcome' = Outcome("evaluate", i, "running",
                                inst[i].best_estimator)
          /\ call' = Frame("evaluate", i, inst[i].best_estimator)
  /\ UNCHANGED <<registry, pipelines, inst, logger, runs, active, autologOn>>

(***************************************************************************)
(* A caller's tracked block on the stand-alone MLflowLogging object:       *)
(*   lg.autolog()                                                          *)
(*   with lg.start_run(): lg.log_metric(...); lg.log_model(...)            *)
(***************************************************************************)
WithBegin ==
  /\ CanStart
  /\ ops' = ops + 1
  /\ trace' = << >>
  /\ sent' = << >>
  /\ autologOn' = Autolog(Solo)
  /\ call' = Frame("with", Solo, NoneEst)
  /\ outcome' = Outcome("with", Solo, "running", NoneEst)
  /\ UNCHANGED <<registry, pipelines, inst, logger, runs, active>>

(***************************************************************************)
(* A method of the stand-alone MLflowLogging object called outside a       *)
(* tracked block, with tracking disabled.                                  *)
(***************************************************************************)
SoloDirect(method) ==
  /\ CanStart
  /\ ~logger[Solo].logging_enabled
  /\ ops' = ops + 1
  /\ trace' = <<method>>
  /\ autologOn' = IF method = "autolog" THEN Autolog(Solo) ELSE autologOn
  /\ runs' = CASE method = "log_metric" -> LogMetric(Solo, "m")
               [] method = "log_model" -> LogModel(Solo, "artifact")
               [] OTHER -> runs
  /\ sent' = CASE method = "log_metric" -> MetricSent(Solo, "m", 50)
               [] method = "log_model" -> ModelSent(Solo, NoneEst, "artifact")
               [] OTHER -> << >>
  /\ outcome' = Outcome(method, Solo, "ok", NoneEst)
  /\ UNCHANGED <<registry, pipelines, inst, logger, active, call>>

(***************************************************************************)
(* MLflowLogging.start_run up to its yield, under contextlib's             *)
(* contextmanager: a generator that ends without yielding makes __enter__  *)
(* raise RuntimeError("generator didn't yield").                           *)
(***************************************************************************)
NewRun(e) == [experiment_id |-> e, status |-> "RUNNING", metrics |-> {},
              artifacts |-> {}]

StartRun ==
  /\ Pc = "start_run"
  /\ LET lg == call.self IN
     IF ~logger[lg].logging_enabled
     THEN /\ Return("RuntimeError")
          /\ UNCHANGED <<logger, runs, active, trace>>
     ELSE \/ \* git.Repo(...) or mlflow.start_run(...) raises
             /\ Return("TrackingError")
             /\ UNCHANGED <<logger, runs, active, trace>>
          \/ \* a new run is created
             /\ RunIdArg(lg) = 0
             /\ LET e == IF logger[lg].experiment_id = "None"
                         THEN DefaultExperiment
                         ELSE logger[lg].experiment_id
                IN /\ runs' = Append(runs, NewRun(e))
                   /\ logger' = [logger EXCEPT
                                   ![lg].last_run_id = Len(runs) + 1,
                                   ![lg].experiment_id = e]
             /\ active' = Len(runs) + 1
             /\ trace' = Append(trace, "open")
             /\ call' = Advance(call)
             /\ UNCHANGED outcome
          \/ \* the run of the cached id is resumed
             /\ RunIdArg(lg) /= 0
             /\ runs' = [runs EXCEPT ![RunIdArg(lg)].status = "RUNNING"]
             /\ logger' = [logger EXCEPT
                             ![lg].last_run_id = RunIdArg(lg),
                             ![lg].experiment_id =
                                runs[RunIdArg(lg)].experiment_id]
             /\ active' = RunIdArg(lg)
             /\ trace' = Append(trace, "open")
             /\ call' = Advance(call)
             /\ UNCHANGED outcome
  /\ UNCHANGED <<registry, pipelines, inst, autologOn, sent, ops>>

(***************************************************************************)
(* The finally clause of start_run, then the return or re-raise.           *)
(***************************************************************************)
EndRun ==
  /\ Pc = "end_run"
  /\ IF EndsRun(call.exc)
     THEN /\ runs' = [runs EXCEPT ![active].status = "FINISHED"]
          /\ active' = 0
          /\ trace' = Append(trace, "close")
     ELSE UNCHANGED <<runs, active, trace>>
  /\ Return(IF call.exc = "none" THEN "ok" ELSE call.exc)
  /\ UNCHANGED <<registry, pipelines, inst, logger, autologOn, sent, ops>>

(***************************************************************************)
(* Estimators produced by fitting.                                         *)
(***************************************************************************)
\* GridSearchCV(estimator=self.pipeline, param_grid=self.param_grid, ...)
\* cloned as `clone` (0: the object itself) and fitted on `rows`
GridSearch(v, n, clone, rows) ==
  [kind |-> "GridSearchCV", obj |-> [call |-> n, clone |-> clone],
   fitted_on |-> rows, grid |-> Range(param_grid(v)), members |-> << >>,
   final |-> "None"]

\* StackingClassifier(estimators=[...], final_estimator=grid_search)
Stacking(members, n, clone, rows) ==
  [kind |-> "StackingClassifier", obj |-> [call |-> n, clone |-> clone],
   fitted_on |-> rows, grid |-> Range(param_grid("Stacking")),
   members |-> members, final |-> "GridSearchCV"]

\* cross_val_score: fold k fits a clone of the estimator on the other folds
FoldFits(c) ==
  [k \in Parts |->
     IF c.op = "train"
     THEN GridSearch(inst[c.self].variant, c.n, k, Parts \ {k})
     ELSE Stacking(StackingEstimator(registry).members, c.n, k, Parts \ {k})]

(***************************************************************************)
(* cross_val_score(...), followed by click.echo                            *)
(***************************************************************************)
CrossVal ==
  /\ Pc = "cv"
  /\ \/ Raise("FitFailure")
        /\ UNCHANGED trace
     \/ /\ call.op = "train" => ValidSteps(pipelines[inst[call.self].pipeline])
        /\ \E s \in ScoreVectors :
             call' = [Advance(call) EXCEPT !.nested_score = s,
                                           !.folds = FoldFits(call)]
        /\ trace' = Append(trace, "cv")
  /\ UNCHANGED <<registry, pipelines, inst, logger, runs, active, autologOn,
                 sent, outcome, ops>>

(***************************************************************************)
(* self.mlflow_log.log_metric(name, value) inside a tracked block          *)
(***************************************************************************)
MetricName(pc) ==
  CASE pc = "log_mean" -> "nested_cv_roc_auc"
    [] pc = "log_std" -> "nested_cv_std"
    [] pc = "log_roc" -> "roc_auc"
    [] OTHER -> "m"

MetricValue(pc) ==
  CASE pc = "log_mean" -> Mean(call.nested_score)
    [] pc = "log_std" -> Std(call.nested_score)
    [] pc = "log_roc" -> call.roc
    [] OTHER -> 50

LogMetricStep ==
  /\ Pc \in {"log_mean", "log_std", "log_roc", "log_metric"}
  /\ \/ Raise("TrackingError")
        /\ UNCHANGED <<runs, trace, sent>>
     \/ /\ runs' = LogMetric(call.self, MetricName(Pc))
        /\ sent' = MetricSent(call.self, MetricName(Pc), MetricValue(Pc))
        /\ trace' = Append(trace, Pc)
        /\ call' = Advance(call)
  /\ UNCHANGED <<registry, pipelines, inst, logger, active, autologOn,
                 outcome, ops>>

(***************************************************************************)
(* MLflowModel.train_with_logging, last statement of the block:            *)
(*   self.best_estimator = grid_search.fit(X, y)                           *)
(***************************************************************************)
LastFoldWinner(c) == c.folds[NSplits]

Refit(c) == GridSearch(inst[c.self].variant, c.n, 0, Parts)

GridFit ==
  /\ call.op = "train" /\ Pc = "fit"
  /\ \/ Raise("FitFailure")
        /\ UNCHANGED <<inst, trace>>
     \/ /\ ValidSteps(pipelines[inst[call.self].pipeline])
        /\ inst' = [inst EXCEPT ![call.self].best_estimator = Refit(call)]
        /\ trace' = Append(trace, "fit")
        /\ call' = Advance(call)
  /\ UNCHANGED <<registry, pipelines, logger, runs, active, autologOn, sent,
                 outcome, ops>>

(***************************************************************************)
(* StackingMLflow.train_with_logging: model = self.estimator.fit(X, y)     *)
(***************************************************************************)
StackFit ==
  /\ call.op = "stack_train" /\ Pc = "fit"
  /\ IF ~StackingEstimator(registry).ok
     THEN Raise("RegistryError") /\ UNCHANGED trace
     ELSE \/ Raise("FitFailure")
             /\ UNCHANGED trace
          \/ /\ call' = [Advance(call) EXCEPT !.model =
                           Stacking(StackingEstimator(registry).members,
                                    call.n, 0, Parts)]
             /\ trace' = Append(trace, "fit")
  /\ UNCHANGED <<registry, pipelines, inst, logger, runs, active, autologOn,
                 sent, outcome, ops>>

(***************************************************************************)
(* StackingMLflow.train_with_logging:                                      *)
(*   self.best_estimator = deepcopy(model)                                 *)
(*   self.best_estimator.final_estimator_ =                                *)
(*       deepcopy(model.final_estimator_.best_estimator_)                  *)
(***************************************************************************)
Retained(model) ==
  [model EXCEPT !.obj.clone = -1, !.final = "CatBoostClassifier"]

Retain ==
  /\ Pc = "retain"
  /\ inst' = [inst EXCEPT ![call.self].best_estimator = Retained(call.model)]
  /\ trace' = Append(trace, "retain")
  /\ call' = Advance(call)
  /\ UNCHANGED <<registry, pipelines, logger, runs, active, autologOn, sent,
                 outcome, ops>>

(***************************************************************************)
(* self.mlflow_log.log_model(model, artifact_path) inside a tracked block  *)
(***************************************************************************)
ArtifactPath(op) == IF op = "stack_train" THEN "stacking" ELSE "artifact"

LoggedModel(c) ==
  IF c.op = "stack_train" THEN inst[c.self].best_estimator ELSE NoneEst

LogModelStep ==
  /\ Pc = "log_model"
  /\ \/ Raise("TrackingError")
        /\ UNCHANGED <<runs, trace, sent>>
     \/ /\ runs' = LogModel(call.self, ArtifactPath(call.op))
        /\ sent' = ModelSent(call.self, LoggedModel(call),
                             ArtifactPath(call.op))
        /\ trace' = Append(trace, "log_model")
        /\ call' = Advance(call)
  /\ UNCHANGED <<registry, pipelines, inst, logger, active, autologOn,
                 outcome, ops>>

(***************************************************************************)
(* evaluate: roc_auc_score(y_val, self.best_estimator.predict(X_val))      *)
(***************************************************************************)
Score ==
  /\ Pc = "score"
  /\ \/ Raise("PredictFailure")
        /\ UNCHANGED trace
     \/ /\ \E v \in RocValues : call' = [Advance(call) EXCEPT !.roc = v]
        /\ trace' = Append(trace, "score")
  /\ UNCHANGED <<registry, pipelines, inst, logger, runs, active, autologOn,
                 sent, outcome, ops>>

Next ==
  \/ \E i \in Instances, v \in Variants, arg \in PipelineArgs :
       Construct(i, v, arg)
  \/ \E name \in Range(ESTIMATORS) : Unstage(name)
  \/ \E i \in Instances : TrainBegin(i)
  \/ \E i \in Instances : EvaluateBegin(i)
  \/ WithBegin
  \/ \E method \in {"autolog", "log_metric", "log_model"} : SoloDirect(method)
  \/ StartRun
  \/ CrossVal
  \/ LogMetricStep
  \/ GridFit
  \/ StackFit
  \/ Retain
  \/ LogModelStep
  \/ Score
  \/ EndRun

Spec == Init /\ [][Next]_vars

(***************************************************************************)
(* Properties                                                              *)
(***************************************************************************)
HasPrefix(str, p) == Len(str) >= Len(p) /\ SubSeq(str, 1, Len(p)) = p

Built == { i \in Instances : inst[i].built }

Finished(op) == outcome.op = op /\ outcome.result /= "running"

Failures == {"RuntimeError", "TrackingError", "FitFailure", "RegistryError",
             "PredictFailure"}

\* C1: evaluate on an instance whose best_estimator is None raises
\* NotFittedError, for every variant, and it does so before a tracked run is
\* opened and before anything is logged: evaluate never gets past its first
\* statement without a retained estimator.
C1_EvaluateUnfittedRaisesFirst ==
  /\ call.op = "evaluate" =>
       inst[call.self].best_estimator.kind /= "None"
  /\ (outcome.op = "evaluate" /\ outcome.before.kind = "None") =>
       /\ outcome.result = "NotFittedError"
       /\ trace = << >>
       /\ sent = << >>
       /\ active = 0

C1_Witness ==
  /\ outcome.op = "evaluate"
  /\ outcome.result = "NotFittedError"
  /\ inst[outcome.self].variant = "Stacking"

\* C2: whenever an operation has returned or raised, no tracked run is open:
\* the run that start_run opened has been ended, also when fitting, scoring,
\* metric logging or artifact logging raised.
C2_RunClosedOnEveryExit ==
  call.op = "idle" =>
    /\ active = 0
    /\ \A r \in DOMAIN runs : runs[r].status = "FINISHED"

C2_Witness ==
  /\ call.op = "idle"
  /\ outcome.result = "FitFailure"
  /\ trace = <<"open", "close">>
  /\ runs /= << >>

C4_SameRunReused ==
  [][\A i \in Instances :
       logger[i].last_run_id /= 0 =>
         /\ logger'[i].last_run_id = logger[i].last_run_id
         /\ logger'[i].experiment_id = logger[i].experiment_id
         /\ (call.self = i /\ active = 0 /\ active' /= 0) =>
              active' = logger[i].last_run_id]_vars

C4_Witness ==
  /\ call.op = "evaluate"
  /\ trace = <<"open">>
  /\ active = logger[call.self].last_run_id
  /\ "nested_cv_std" \in runs[active].metrics

\* C5: with tracking disabled (logging_enabled = False) autolog, log_metric
\* and log_model send nothing to the tracker, and a with start_run() block
\* runs its body and ends normally.
C5_DisabledTrackingIsBestEffort ==
  ~logger[Solo].logging_enabled =>
    /\ outcome.op \in {"autolog", "log_metric", "log_model"} =>
         outcome.result = "ok" /\ sent = << >> /\ runs = << >>
    /\ Finished("with") =>
         /\ outcome.result = "ok"
         /\ sent = << >>
         /\ trace = <<"log_metric", "log_model">>

\* C6 as claimed: every variant's param_grid is non-empty and every key
\* starts with the model stage's name followed by "__".
C6_AllGridsPrefixed ==
  \A i \in Built :
    /\ Len(param_grid(inst[i].variant)) > 0
    /\ \A key \in Range(param_grid(inst[i].variant)) :
         HasPrefix(key, ModelStage \o "__")

\* C6 as amended: every variant's param_grid is non-empty; the keys of the
\* six pipeline variants all start with "model__", the keys of the Stacking
\* variant are the bare parameter names of its meta-model, none prefixed.
C6_BaseGridsPrefixedStackingBare ==
  \A i \in Built :
    /\ Len(param_grid(inst[i].variant)) > 0
    /\ inst[i].variant \in BaseVariants =>
         \A key \in Range(param_grid(inst[i].variant)) :
           HasPrefix(key, ModelStage \o "__")
    /\ inst[i].variant = "Stacking" =>
         \A key \in Range(param_grid(inst[i].variant)) :
           ~HasPrefix(key, ModelStage \o "__")
    /\ inst[i].best_estimator.kind /= "None" =>
         inst[i].best_estimator.grid = Range(param_grid(inst[i].variant))

C6_Witness ==
  /\ \E i \in Built : inst[i].variant = "Stacking"
  /\ \E i \in Built : inst[i].variant = "CatBoost"
                        /\ inst[i].best_estimator.kind /= "None"

\* C7: with a required base model missing from the registry the stacking
\* estimator is not built: the constructor fails without creating the
\* instance, a train_with_logging that reloads the members starts neither
\* the fit nor the cross-validation, and every ensemble that exists has all
\* four members.
C7_NoPartialEnsemble ==
  LET missing == \E k \in DOMAIN ESTIMATORS : ESTIMATORS[k] \notin registry
      whole(e) == e.kind = "StackingClassifier" => e.members = ESTIMATORS
  IN /\ (outcome.op = "construct" /\ missing) =>
          inst[outcome.self].variant /= "Stacking"
     /\ (outcome.op = "construct" /\ outcome.result = "RegistryError") =>
          /\ missing
          /\ ~inst[outcome.self].built
          /\ trace = << >>
     /\ (call.op = "stack_train" /\ missing) =>
          /\ "fit" \notin Range(trace)
          /\ "cv" \notin Range(trace)
     /\ whole(call.model)
     /\ \A k \in DOMAIN call.folds : whole(call.folds[k])
     /\ \A i \in Instances : whole(inst[i].best_estimator)

C7_Witness ==
  /\ outcome.op = "construct"
  /\ outcome.result = "RegistryError"
  /\ Cardinality(registry) = Len(ESTIMATORS) - 1

StackingOrder ==
  <<"open", "fit", "cv", "log_mean", "log_std", "retain", "log_model">>

C9_OneModelStageLast ==
  \A i \in Built :
    LET steps == pipelines[inst[i].pipeline]
    IN /\ Len(steps) > 0
       /\ steps[Len(steps)].name = ModelStage
       /\ Cardinality({k \in DOMAIN steps : steps[k].name = ModelStage}) = 1

\* C10: best_estimator stays None until a train_with_logging call completes,
\* and a train_with_logging call that fails leaves best_estimator as it was
\* before the call.
C10_FailedTrainKeepsBestEstimator ==
  (outcome.op \in {"train", "stack_train"} /\ outcome.result \in Failures) =>
    inst[outcome.self].best_estimator = outcome.before

=============================================================================
